---- MODULE Spec2Model ----
(***************************************************************************)
(* Configuration propagation of the Wizard's Deployment Kit: the Config    *)
(* Loader (src/cdk/config-loader.ts and the copy exported from             *)
(* src/cdk/constructs/index.ts), the read helpers (getConfigValue,         *)
(* WdkModule.getInput, ConfigReader.getValue) and the Config Writer        *)
(* (src/cdk/config-manager.ts) with the deployment of its batches.         *)
(*                                                                         *)
(* Strings are sequences of one-character strings, so that trim,           *)
(* lastIndexOf, slice, split and template concatenation are computed.      *)
(***************************************************************************)
EXTENDS Integers, Sequences, FiniteSets, TLC

\* ------------------------------------------------------------------------
\* Bounds
\* ------------------------------------------------------------------------
\* longest requiredInputs list handed to the Loader
MaxReq == 2

\* longest properties list handed to a ConfigWriter
MaxOutputs == 51

\* deployments of one ConfigWriter's stack, runs of the apps of one stage
MaxRuns == 2

\* createOutput calls of one initialize()
MaxCalls == 2

\* ------------------------------------------------------------------------
\* JavaScript string primitives
\* ------------------------------------------------------------------------
MaxOf(S) == CHOOSE x \in S : \A y \in S : y <= x

MinOf2(a, b) == IF a < b THEN a ELSE b

\* String.prototype.lastIndexOf: 0-based index of the last c, -1 when absent
LastIndexOf(s, c) ==
  LET idx == {i \in 1..Len(s) : s[i] = c}
  IN IF idx = {} THEN -1 ELSE MaxOf(idx) - 1

\* String.prototype.indexOf: 0-based index of the first c, -1 when absent
IndexOf(s, c) ==
  LET idx == {i \in 1..Len(s) : s[i] = c}
  IN IF idx = {} THEN -1 ELSE (CHOOSE i \in idx : \A j \in idx : i <= j) - 1

\* String.prototype.slice(from, to) for 0 <= from, to
Slice(s, from, to) == SubSeq(s, from + 1, MinOf2(to, Len(s)))

RECURSIVE TrimStart(_)
TrimStart(s) ==
  IF s # <<>> /\ Head(s) = " " THEN TrimStart(Tail(s)) ELSE s

RECURSIVE TrimEnd(_)
TrimEnd(s) ==
  IF s # <<>> /\ s[Len(s)] = " " THEN TrimEnd(SubSeq(s, 1, Len(s) - 1)) ELSE s

\* String.prototype.trim
Trim(s) == TrimEnd(TrimStart(s))

\* String.prototype.split('.'): the segments between the dots
RECURSIVE Split(_)
Split(s) ==
  LET i == IndexOf(s, ".")
  IN IF i = -1 THEN <<s>>
     ELSE <<Slice(s, 0, i)>> \o Split(Slice(s, i + 1, Len(s)))

\* the template literal `${stackName}.${propertyName}`
RefOf(stackName, propertyName) == stackName \o <<".">> \o propertyName

\* Array.from(new Set(list)): first occurrences, in order
Unique(list) ==
  LET first == {i \in 1..Len(list) : \A j \in 1..(i - 1) : list[j] # list[i]}
  IN [k \in 1..Cardinality(first) |->
        list[CHOOSE i \in first : Cardinality({j \in first : j <= i}) = k]]

Range(f) == {f[i] : i \in DOMAIN f}

\* an object with no own property
EmptyMap == [k \in {} |-> <<>>]

\* ------------------------------------------------------------------------
\* Store identity and store contents
\* ------------------------------------------------------------------------
\* projectPrefix and stage names of the modelled project
Prefixes == {<<"p">>}

Stages == {<<"d", "e", "v">>, <<"p", "r", "o", "d">>}

\* the table name without the stage
getConfigTableName_NoStage(prefixName, stageName) ==
  prefixName \o <<"-", "c", "o", "n", "f", "i", "g">>

\* getConfigTableName of config-loader.ts and of config-manager.ts
getConfigTableName(prefixName, stageName) ==
  prefixName \o <<"-">> \o stageName \o <<"-", "c", "o", "n", "f", "i", "g">>

TableNames == {getConfigTableName(p, s) : p \in Prefixes, s \in Stages}

DevTable == getConfigTableName(<<"p">>, <<"d", "e", "v">>)

\* a destructured array element or object property that is not there
Undefined == <<"undefined">>

\* the item stored under key <<stackName, propertyName>>
Item(value, type) == [value |-> value, type |-> type]

EmptyTable == [k \in {} |-> Item(<<>>, "string")]

\* the most keys DynamoDB accepts in one BatchGetItem request
GetLimit == 100

\* DynamoDB BatchGetItem on one table: the request is rejected as a whole
\* when a key attribute is missing or empty, when two keys are equal or
\* when it carries more than GetLimit keys; otherwise the items of the keys
\* that exist come back, absent keys are simply not in the response
BatchGetItem(tbl, keys) ==
  LET bad == \/ Len(keys) > GetLimit
             \/ \E i \in 1..Len(keys) :
                   \/ keys[i][1] \in {<<>>, Undefined}
                   \/ keys[i][2] \in {<<>>, Undefined}
             \/ \E i, j \in 1..Len(keys) : i # j /\ keys[i] = keys[j]
  IN [failed |-> bad,
      items  |-> IF bad THEN {}
                 ELSE {[stackName |-> k[1], propertyName |-> k[2],
                        value |-> tbl[k].value, type |-> tbl[k].type] :
                       k \in Range(keys) \cap DOMAIN tbl}]

\* ------------------------------------------------------------------------
\* Config Loader
\* ------------------------------------------------------------------------
NoError == [kind |-> "none", input |-> <<>>, table |-> <<>>]

\* `Invalid required input format: ${input}. Expected: ...`
FormatError(input) == [kind |-> "InvalidFormat", input |-> input, table |-> <<>>]

\* NotFoundError without the `Table:` line
NotFoundError_NoTable(input, tableName) ==
  [kind |-> "NotFound", input |-> input, table |-> <<>>]

\* `Required config value not found in DynamoDB: ${input}\nTable: ${tableName}`
NotFoundError(input, tableName) ==
  [kind |-> "NotFound", input |-> input, table |-> tableName]

\* an error thrown by client.send
SdkError == [kind |-> "Sdk", input |-> <<>>, table |-> <<>>]

Returned(config, sent) ==
  [status |-> "ok", config |-> config, error |-> NoError, reads |-> sent]

\* every throw inside the try block is rethrown by the catch block as
\* `Failed to load config from DynamoDB: ${error.message}`
Thrown(error, sent) ==
  [status |-> "error", config |-> EmptyMap, error |-> error, reads |-> sent]

NotLoaded ==
  [status |-> "none", config |-> EmptyMap, error |-> NoError, reads |-> <<>>]

\* the mapping built from the response items, keyed `${stackName}.${propertyName}`
ConfigOf(items) ==
  [r \in {RefOf(it.stackName, it.propertyName) : it \in items} |->
     (CHOOSE it \in items : RefOf(it.stackName, it.propertyName) = r).value]

\* Malformed without the check for a trailing dot
Malformed_NoTrailingCheck(input) == LastIndexOf(input, ".") <= 0

\* the guard of the parse step of config-loader.ts
Malformed(input) ==
  LET lastDotIndex == LastIndexOf(input, ".")
  IN lastDotIndex <= 0 \/ lastDotIndex = Len(input) - 1

\* the key built by the parse step of config-loader.ts
ParseKey(input) ==
  LET lastDotIndex == LastIndexOf(input, ".")
  IN <<Slice(input, 0, lastDotIndex), Slice(input, lastDotIndex + 1, Len(input))>>

\* the trimmed, non-empty inputs without the Set: repeats stay in the list
uniqueRequiredInputs_NoSet(requiredInputs) ==
  SelectSeq([i \in 1..Len(requiredInputs) |-> Trim(requiredInputs[i])],
            LAMBDA x : Len(x) > 0)

uniqueRequiredInputs(requiredInputs) ==
  Unique(SelectSeq([i \in 1..Len(requiredInputs) |-> Trim(requiredInputs[i])],
                   LAMBDA x : Len(x) > 0))

\* the element at which a forEach / map callback throws: the first element
\* of list, in order, that is in the set bad
FirstIn(list, bad) ==
  list[CHOOSE i \in 1..Len(list) :
         list[i] \in bad /\ \A j \in 1..(i - 1) : list[j] \notin bad]

\* ProcessResponse without the validation loop: whatever was found is returned
ProcessResponse_NoValidation(tableName, tbl, requiredInputs, keys) ==
  LET response == BatchGetItem(tbl, keys)
  IN IF response.failed THEN Thrown(SdkError, <<keys>>)
     ELSE Returned(ConfigOf(response.items), <<keys>>)

\* response processing and validation, shared by both implementations
ProcessResponse(tableName, tbl, requiredInputs, keys) ==
  LET response == BatchGetItem(tbl, keys)
      config   == ConfigOf(response.items)
      missing  == {input \in Range(requiredInputs) : input \notin DOMAIN config}
  IN IF response.failed THEN Thrown(SdkError, <<keys>>)
     ELSE IF missing # {}
          THEN Thrown(NotFoundError(FirstIn(requiredInputs, missing), tableName),
                      <<keys>>)
          ELSE Returned(config, <<keys>>)

\* loadConfigFromDynamoDB of config-loader.ts
loadConfigFromDynamoDB(tableName, tbl, requiredInputs) ==
  LET unique == uniqueRequiredInputs(requiredInputs)
  IN IF Len(requiredInputs) = 0 THEN Returned(EmptyMap, <<>>)
     ELSE IF Len(unique) = 0 THEN Returned(EmptyMap, <<>>)
     ELSE IF \E i \in 1..Len(unique) : Malformed(unique[i])
          THEN Thrown(FormatError(FirstIn(unique, {u \in Range(unique) : Malformed(u)})),
                      <<>>)
          ELSE ProcessResponse(tableName, tbl, requiredInputs,
                               [i \in 1..Len(unique) |-> ParseKey(unique[i])])

\* the key built by the parse step of constructs/index.ts:
\* const [stackName, propertyName] = input.split('.')
SplitKey(input) ==
  LET parts == Split(input)
  IN <<parts[1], IF Len(parts) >= 2 THEN parts[2] ELSE Undefined>>

\* loadConfigFromDynamoDB of constructs/index.ts
constructsLoadConfigFromDynamoDB(tableName, tbl, requiredInputs) ==
  IF Len(requiredInputs) = 0 THEN Returned(EmptyMap, <<>>)
  ELSE ProcessResponse(tableName, tbl, requiredInputs,
                       [i \in 1..Len(requiredInputs) |-> SplitKey(requiredInputs[i])])

\* ------------------------------------------------------------------------
\* Read helpers
\* ------------------------------------------------------------------------
Got(value) == [status |-> "ok", value |-> value]

\* `Config value not found: ${key}`
GetFailed == [status |-> "error", value |-> <<>>]

\* getConfigValue of config-loader.ts
getConfigValue(config, stackName, propertyName) ==
  LET key == RefOf(stackName, propertyName)
  IN IF key \notin DOMAIN config THEN GetFailed ELSE Got(config[key])

\* getInput falling back to '' for a key that is not in loadedConfig
getInput_Default(loadedConfig, stackName, propertyName) ==
  LET key == RefOf(stackName, propertyName)
  IN IF key \notin DOMAIN loadedConfig THEN Got(<<>>) ELSE Got(loadedConfig[key])

\* WdkModule.getInput, reading this.loadedConfig
getInput(loadedConfig, stackName, propertyName) ==
  LET key == RefOf(stackName, propertyName)
  IN IF key \notin DOMAIN loadedConfig THEN GetFailed ELSE Got(loadedConfig[key])

\* the deploy-time token reader.getResponseField(...) kept for a declared name
ResponseField(propName) == <<"$">> \o propName

\* ConfigReader: this.properties after the constructor
ReaderProperties(propertyNames) ==
  [n \in Range(propertyNames) |-> ResponseField(n)]

\* ConfigReader.getValue: this.properties[propertyName] || ''
getValue(properties, propertyName) ==
  IF propertyName \in DOMAIN properties /\ properties[propertyName] # <<>>
  THEN Got(properties[propertyName])
  ELSE Got(<<>>)

\* ------------------------------------------------------------------------
\* State
\* ------------------------------------------------------------------------
VARIABLES
  tables,          \* table name -> (<<stackName, propertyName>> -> item)
  requiredInputs,  \* the list handed to the last Loader call
  queriedTable,    \* the table name handed to the last Loader call
  loadImpl,        \* the implementation the last Loader call ran
  loaded,          \* outcome of the last Loader call, with the reads it issued
  reader,          \* propertyNames of the ConfigReader construct
  got,             \* the last read-helper call and its outcome
  writerStackName, \* props.stackName of the ConfigWriter construct (the producer)
  properties,      \* props.properties of the ConfigWriter construct
  batches,         \* the batches the ConfigWriter constructor built
  batchState,      \* per batch: its custom resource is pending, running, done or failed
  deploy,          \* the deployment of the stack: none, deploying or failed
  run,             \* number of deployments of the ConfigWriter's stack so far
  phase,           \* position of the current run: idle, initialize, synthesized, exited
  exitCode,        \* exit code of the run's process, -1 while it runs
  app,             \* the app of the current run: none, module or foundation
  propsOutputs,    \* props.outputs handed to the WdkModule constructor
  moduleOutputs,   \* the pending-outputs buffer of the WdkModule
  outputIds,       \* ids of the CfnOutput constructs of the stack
  calls,           \* the createOutput calls of the current run, in order
  flushes,         \* ConfigWriter constructs created by the current run
  descriptor,      \* <moduleName>/module-config.json of the module
  provisioned,     \* names of the config tables that exist
  coreJson,        \* per project directory: wdk/core.json
  stageFiles,      \* <<directory, stage>> pairs whose wdk/<stage>.json exists
  moduleDir,       \* per project directory: the cloned module and its module-config.json
  command          \* the CLI command that runs or ran last, and its position

writerVars == <<writerStackName, properties, batches, batchState, deploy, run>>

commandVars == <<coreJson, stageFiles, moduleDir, command>>

moduleVars == <<phase, exitCode, app, propsOutputs, moduleOutputs, outputIds, calls,
                flushes, descriptor>>

vars == <<tables, requiredInputs, queriedTable, loadImpl, loaded, reader, got,
          writerStackName, properties, batches, batchState, deploy, run,
          phase, exitCode, app, propsOutputs, moduleOutputs, outputIds, calls,
          flushes, descriptor, provisioned, coreJson, stageFiles, moduleDir, command>>

\* ------------------------------------------------------------------------
\* Project directories: the files the CLI commands read and write
\* ------------------------------------------------------------------------
\* the project directories in which commands are run
Dirs == {1, 2}

\* wdk/core.json of a directory; not present until init writes it
CoreConfig(present, projectPrefix, stages) ==
  [present |-> present, projectPrefix |-> projectPrefix, stages |-> stages]

NoCoreJson == CoreConfig(FALSE, <<>>, <<>>)

\* <module>/module-config.json of a directory; not present until add-module
\* clones the module
ModuleConfig(present, inputs) == [present |-> present, requiredInputs |-> inputs]

NoModuleDir == ModuleConfig(FALSE, <<>>)

\* a command's process: the directory it runs in, the stage it selected, the
\* await it is at, what it has been through, its setup questions and the
\* one it is writing, its exit code (-1 while it runs) and how many
\* commands have been run so far
Command(name, dir, stage, step, log, code, count, questions, at) ==
  [name |-> name, dir |-> dir, stage |-> stage, step |-> step, log |-> log,
   code |-> code, count |-> count, questions |-> questions, at |-> at]

NoCommand == Command("none", 0, <<>>, "done", <<>>, 0, 0, <<>>, 0)

\* no command has been run in any directory
NoCommands ==
  /\ coreJson = [d \in Dirs |-> NoCoreJson]
  /\ stageFiles = {}
  /\ moduleDir = [d \in Dirs |-> NoModuleDir]
  /\ command = NoCommand

loaderVars == <<requiredInputs, queriedTable, loadImpl, loaded, reader, got>>

\* ------------------------------------------------------------------------
\* Inputs of the Loader specification
\* ------------------------------------------------------------------------
RefPool ==
  { <<"a", ".", "b">>,                \* present or absent
    <<"a", ".", "c">>,
    <<"a", ".", "b", ".", "c">>,      \* producer 'a.b'
    <<"a">>,                          \* no dot
    <<"a", ".">>,                     \* nothing after the final dot
    <<".", "a">>,                     \* nothing before the only dot
    <<>>,                             \* blank
    <<" ">>,                          \* blank after trimming
    <<" ", "a", ".", "b">>,           \* padded
    <<"a", ".", "c", " ">> }

Requests == UNION {[1..n -> RefPool] : n \in 0..MaxReq}

\* a long list of n distinct references 'a.0000001', 'a.0000010', ...
ManyRefs(n) ==
  [i \in 1..n |->
     <<"a", ".">> \o [j \in 1..7 |-> IF (i \div (2 ^ (7 - j))) % 2 = 1 THEN "1" ELSE "0"]]

\* lengths of the long lists: the store's key limit and one more
ManyCounts == {GetLimit, GetLimit + 1}

KeyPool == { <<<<"a">>, <<"b">>>>, <<<<"a">>, <<"c">>>>, <<<<"a", ".", "b">>, <<"c">>>> }

StackPool == { <<"a">>, <<"a", ".", "b">> }

PropPool == { <<"b">>, <<"c">>, <<"b", ".", "c">> }

\* the value a producer stored under key k
ValueOf(k) == <<"v">> \o k[1] \o <<"/">> \o k[2]

StoreWith(keys) == [k \in keys |-> Item(ValueOf(k), "string")]

NoGet == [fn |-> "none", stackName |-> <<>>, propertyName |-> <<>>,
          result |-> GetFailed]

\* ------------------------------------------------------------------------
\* Loader specification: a store in some state and one synthesis run, which
\* either resolves its inputs through a Loader or reads through a ConfigReader
\* ------------------------------------------------------------------------
LoaderInit ==
  /\ \E keys \in SUBSET KeyPool :
       tables = [t \in TableNames |-> IF t = DevTable THEN StoreWith(keys) ELSE EmptyTable]
  /\ requiredInputs = <<>>
  /\ queriedTable = <<>>
  /\ loadImpl = "none"
  /\ loaded = NotLoaded
  /\ reader = <<>>
  /\ got = NoGet
  /\ writerStackName = <<>>
  /\ properties = <<>>
  /\ batches = <<>>
  /\ batchState = <<>>
  /\ deploy = "none"
  /\ run = 0
  /\ phase = "idle"
  /\ exitCode = -1
  /\ app = "none"
  /\ propsOutputs = <<>>
  /\ moduleOutputs = <<>>
  /\ outputIds = {}
  /\ calls = <<>>
  /\ flushes = 0
  /\ descriptor = [file |-> "missing", outputs |-> <<>>]
  /\ provisioned = TableNames
  /\ NoCommands

\* a module app calls loadConfigFromDynamoDB of config-loader.ts
Load(tableName, inputs) ==
  /\ loadImpl = "none" /\ reader = <<>>
  /\ requiredInputs' = inputs
  /\ queriedTable' = tableName
  /\ loadImpl' = "config-loader"
  /\ loaded' = loadConfigFromDynamoDB(tableName, tables[tableName], inputs)
  /\ got' = NoGet
  /\ UNCHANGED <<provisioned, commandVars, tables, reader, writerVars, moduleVars>>

\* a module app calls loadConfigFromDynamoDB of constructs/index.ts
LoadConstructs(tableName, inputs) ==
  /\ loadImpl = "none" /\ reader = <<>>
  /\ requiredInputs' = inputs
  /\ queriedTable' = tableName
  /\ loadImpl' = "constructs"
  /\ loaded' = constructsLoadConfigFromDynamoDB(tableName, tables[tableName], inputs)
  /\ got' = NoGet
  /\ UNCHANGED <<provisioned, commandVars, tables, reader, writerVars, moduleVars>>

\* module logic calls getInput; the module is only constructed when the
\* Loader returned (or, as in foundation-app.ts, was never called)
GetInput(stackName, propertyName) ==
  /\ loaded.status # "error"
  /\ got' = [fn |-> "getInput", stackName |-> stackName, propertyName |-> propertyName,
             result |-> getInput(loaded.config, stackName, propertyName)]
  /\ UNCHANGED <<provisioned, commandVars, tables, requiredInputs, queriedTable, loadImpl, loaded, reader, writerVars, moduleVars>>

\* a caller applies getConfigValue to the mapping the Loader returned
GetConfigValue(stackName, propertyName) ==
  /\ loaded.status = "ok"
  /\ got' = [fn |-> "getConfigValue", stackName |-> stackName,
             propertyName |-> propertyName,
             result |-> getConfigValue(loaded.config, stackName, propertyName)]
  /\ UNCHANGED <<provisioned, commandVars, tables, requiredInputs, queriedTable, loadImpl, loaded, reader, writerVars, moduleVars>>

\* new ConfigReader(scope, id, {tableName, stackName, propertyNames})
NewConfigReader(propertyNames) ==
  /\ loadImpl = "none" /\ reader = <<>>
  /\ reader' = propertyNames
  /\ got' = NoGet
  /\ UNCHANGED <<provisioned, commandVars, tables, requiredInputs, queriedTable, loadImpl, loaded, writerVars, moduleVars>>

\* ConfigReader.getValue(propertyName)
GetValue(propertyName) ==
  /\ reader # <<>>
  /\ got' = [fn |-> "getValue", stackName |-> <<>>, propertyName |-> propertyName,
             result |-> getValue(ReaderProperties(reader), propertyName)]
  /\ UNCHANGED <<provisioned, commandVars, tables, requiredInputs, queriedTable, loadImpl, loaded, reader, writerVars, moduleVars>>

LoaderNext ==
  \/ \E t \in TableNames, inputs \in Requests : Load(t, inputs)
  \/ \E n \in ManyCounts : Load(DevTable, ManyRefs(n))
  \/ \E t \in TableNames, inputs \in Requests : LoadConstructs(t, inputs)
  \/ \E s \in StackPool, p \in PropPool : GetInput(s, p)
  \/ \E s \in StackPool, p \in PropPool : GetConfigValue(s, p)
  \/ \E names \in {<<<<"b">>>>, <<<<"b">>, <<"c">>>>} : NewConfigReader(names)
  \/ \E p \in PropPool : GetValue(p)

LoaderSpec == LoaderInit /\ [][LoaderNext]_vars

\* ------------------------------------------------------------------------
\* Config Writer
\* ------------------------------------------------------------------------
\* const batchSize = 25 (DynamoDB BatchWriteItem limit)
batchSize == 25

\* a JavaScript value handed over as prop.value: a string or a number
StringValue(s) == [t |-> "string", s |-> s, n |-> 0]

NumberValue(n) == [t |-> "number", s |-> <<>>, n |-> n]

DigitChars == <<"0", "1", "2", "3", "4", "5", "6", "7", "8", "9">>

\* JSON.stringify of a non-negative integer
RECURSIVE Decimal(_)
Decimal(n) ==
  IF n < 10 THEN <<DigitChars[n + 1]>>
  ELSE Append(Decimal(n \div 10), DigitChars[(n % 10) + 1])

\* typeof prop.value === 'string' ? prop.value : JSON.stringify(prop.value)
StoredText(value) == IF value.t = "string" THEN value.s ELSE Decimal(value.n)

\* one PutRequest item
PutRequest(stack, prop) ==
  [stackName |-> stack, propertyName |-> prop.propertyName,
   value |-> StoredText(prop.value), type |-> prop.type]

\* const writeRequests = props.properties.map(...)
WriteRequests(stack, props) == [i \in 1..Len(props) |-> PutRequest(stack, props[i])]

\* for (let i = 0; i < writeRequests.length; i += batchSize)
\*   batches.push(writeRequests.slice(i, i + batchSize))
RECURSIVE BatchLoop(_, _, _)
BatchLoop(writeRequests, i, acc) ==
  IF i < Len(writeRequests)
  THEN BatchLoop(writeRequests, i + batchSize,
                 Append(acc, Slice(writeRequests, i, i + batchSize)))
  ELSE acc

\* the batching loop with the test i + batchSize <= writeRequests.length,
\* which leaves a final partial batch out
RECURSIVE BatchLoop_FullOnly(_, _, _)
BatchLoop_FullOnly(writeRequests, i, acc) ==
  IF i + batchSize <= Len(writeRequests)
  THEN BatchLoop_FullOnly(writeRequests, i + batchSize,
                          Append(acc, Slice(writeRequests, i, i + batchSize)))
  ELSE acc

Batches_FullOnly(writeRequests) == BatchLoop_FullOnly(writeRequests, 0, <<>>)

Batches(writeRequests) == BatchLoop(writeRequests, 0, <<>>)

\* a put into a table whose key also covers the value attribute: a new
\* value for a key adds an item next to the old one
Put_KeyedByValue(tbl, r) ==
  [k \in DOMAIN tbl \cup {<<r.stackName, r.propertyName \o <<"=">> \o r.value>>} |->
     IF k = <<r.stackName, r.propertyName \o <<"=">> \o r.value>>
     THEN Item(r.value, r.type) ELSE tbl[k]]

\* one put: the item under its key is created or overwritten
Put(tbl, r) ==
  [k \in DOMAIN tbl \cup {<<r.stackName, r.propertyName>>} |->
     IF k = <<r.stackName, r.propertyName>> THEN Item(r.value, r.type) ELSE tbl[k]]

\* DynamoDB batchWriteItem of one batch, acknowledged as a whole
RECURSIVE BatchWriteItem(_, _)
BatchWriteItem(tbl, batch) ==
  IF batch = <<>> THEN tbl ELSE BatchWriteItem(Put(tbl, Head(batch)), Tail(batch))

\* ------------------------------------------------------------------------
\* Inputs of the Writer specification
\* ------------------------------------------------------------------------
Producers == { <<"m">>, <<"m", ".", "s">> }

NameOf(i) == <<"n">> \o Decimal(i)

DottedName == <<"n", ".", "x">>

\* a list repeats its property names with one of these periods
DupPeriods == {2, 25}

\* "repeat" lists repeat names with new values, "same" lists repeat whole
\* entries
Patterns ==
  {[kind |-> "distinct", period |-> 0], [kind |-> "dotted", period |-> 0],
   [kind |-> "same", period |-> 2]}
    \cup {[kind |-> "repeat", period |-> p] : p \in DupPeriods}

\* the value of the i-th output: every third one is a number, the others strings
ValueAt(i) == IF i % 3 = 0 THEN NumberValue(i) ELSE StringValue(<<"v">> \o Decimal(i))

TypeAt(i) == IF i % 3 = 0 THEN "number" ELSE "string"

\* the i-th output of a list
PropertyAt(pat, i) ==
  [propertyName |->
     IF pat.kind \in {"repeat", "same"} THEN NameOf(((i - 1) % pat.period) + 1)
     ELSE IF pat.kind = "dotted" /\ i = 1 THEN DottedName
     ELSE NameOf(i),
   value |-> IF pat.kind = "same" THEN ValueAt(((i - 1) % pat.period) + 1) ELSE ValueAt(i),
   type  |-> IF pat.kind = "same" THEN TypeAt(((i - 1) % pat.period) + 1) ELSE TypeAt(i)]

OutputList(pat, n) == [i \in 1..n |-> PropertyAt(pat, i)]

\* ------------------------------------------------------------------------
\* Writer specification: one ConfigWriter construct, the deployment of its
\* custom resources, and a consumer loading what was written
\* ------------------------------------------------------------------------
WriterInit ==
  /\ tables = [t \in TableNames |-> EmptyTable]
  /\ requiredInputs = <<>>
  /\ queriedTable = <<>>
  /\ loadImpl = "none"
  /\ loaded = NotLoaded
  /\ reader = <<>>
  /\ got = NoGet
  /\ writerStackName = <<>>
  /\ properties = <<>>
  /\ batches = <<>>
  /\ batchState = <<>>
  /\ deploy = "none"
  /\ run = 0
  /\ phase = "idle"
  /\ exitCode = -1
  /\ app = "none"
  /\ propsOutputs = <<>>
  /\ moduleOutputs = <<>>
  /\ outputIds = {}
  /\ calls = <<>>
  /\ flushes = 0
  /\ descriptor = [file |-> "missing", outputs |-> <<>>]
  /\ provisioned = TableNames
  /\ NoCommands

\* new ConfigWriter(scope, id, {tableName, stackName, properties}), followed
\* by the deployment of the synthesized stack
NewConfigWriter(stack, props) ==
  /\ deploy = "none"
  /\ writerStackName' = stack
  /\ properties' = props
  /\ batches' = Batches(WriteRequests(stack, props))
  /\ batchState' = [i \in 1..Len(Batches(WriteRequests(stack, props))) |-> "pending"]
  /\ deploy' = "deploying"
  /\ run' = 1
  /\ UNCHANGED <<provisioned, commandVars, tables, requiredInputs, queriedTable, loadImpl, loaded, reader, got, moduleVars>>

\* new dynamodb.Table(this, `${prefixStage}-config`, {tableName: `${prefixStage}-config`})
FoundationTableName(prefixName, stageName) ==
  (prefixName \o <<"-">> \o stageName) \o <<"-", "c", "o", "n", "f", "i", "g">>

\* the identifier CloudFormation gives a resource attribute at deployment
ResourceId(kind) == <<kind>>

\* the values that are attributes of the Foundation's table construct: at
\* synthesis configTable.tableName and configTable.tableArn are tokens, and
\* a resource whose properties carry one refers to the table
TableTokens(prefixName, stageName) ==
  {FoundationTableName(prefixName, stageName), ResourceId("tableArn")}

\* a custom resource that is created without regard to what its parameters
\* refer to
DependsOnTable_Never(batch) == FALSE

\* the custom resource of a batch has the put requests among its
\* parameters: when one of them carries a token of the table, CloudFormation
\* creates the table first
DependsOnTable(batch) ==
  \E k \in DOMAIN batch : batch[k].value \in TableTokens(<<"p">>, <<"d", "e", "v">>)

\* CloudFormation starts the custom resource of batch i once the resources
\* it refers to exist; the constructor declares no dependency between the
\* batches' resources
StartBatch(i) ==
  /\ deploy = "deploying"
  /\ batchState[i] = "pending"
  /\ DependsOnTable(batches[i]) => DevTable \in provisioned
  /\ batchState' = [batchState EXCEPT ![i] = "running"]
  /\ UNCHANGED <<provisioned, commandVars, tables, requiredInputs, queriedTable, loadImpl, loaded, reader, got,
                 writerStackName, properties, batches, deploy, run, moduleVars>>

\* the batchWriteItem call of batch i is acknowledged: the table exists
BatchSucceeds(i) ==
  /\ batchState[i] = "running"
  /\ DevTable \in provisioned
  /\ tables' = [tables EXCEPT ![DevTable] = BatchWriteItem(@, batches[i])]
  /\ batchState' = [batchState EXCEPT ![i] = "done"]
  /\ UNCHANGED <<provisioned, commandVars, requiredInputs, queriedTable, loadImpl, loaded, reader, got,
                 writerStackName, properties, batches, deploy, run, moduleVars>>

\* the batchWriteItem call of batch i is rejected: the deployment fails and
\* no further resource is started
BatchFails(i) ==
  /\ batchState[i] = "running"
  /\ batchState' = [batchState EXCEPT ![i] = "failed"]
  /\ deploy' = "failed"
  /\ UNCHANGED <<provisioned, commandVars, tables, requiredInputs, queriedTable, loadImpl, loaded, reader, got,
                 writerStackName, properties, batches, run, moduleVars>>

AllBatchesDone ==
  deploy = "deploying" /\ \A i \in DOMAIN batchState : batchState[i] = "done"

\* the same stack is synthesized and deployed once more with the same
\* outputs: the custom resources carry onUpdate, so their calls run again
Redeploy ==
  /\ AllBatchesDone /\ loadImpl = "none"
  /\ run < MaxRuns
  /\ batchState' = [i \in DOMAIN batchState |-> "pending"]
  /\ run' = run + 1
  /\ UNCHANGED <<provisioned, commandVars, tables, requiredInputs, queriedTable, loadImpl, loaded, reader, got,
                 writerStackName, properties, batches, deploy, moduleVars>>

\* after the deployment a consumer loads the reference of entry i
LoadBack(i) ==
  /\ AllBatchesDone
  /\ Load(DevTable, <<RefOf(writerStackName, properties[i].propertyName)>>)

WriterNext ==
  \/ \E stack \in Producers, pat \in Patterns, n \in 0..MaxOutputs :
       NewConfigWriter(stack, OutputList(pat, n))
  \/ \E i \in DOMAIN batchState : StartBatch(i)
  \/ \E i \in DOMAIN batchState : BatchSucceeds(i)
  \/ \E i \in DOMAIN batchState : BatchFails(i)
  \/ \E i \in DOMAIN properties : LoadBack(i)
  \/ Redeploy

WriterSpec == WriterInit /\ [][WriterNext]_vars

\* ------------------------------------------------------------------------
\* WdkModule: the pending-outputs buffer and the descriptor file
\* ------------------------------------------------------------------------
\* moduleName of the module app under test and of the foundation app
ModuleName == <<"m">>

FoundationName == <<"f", "o", "u", "n", "d", "a", "t", "i", "o", "n">>

\* value: `<set at deployment>`
Placeholder == <<"<", "s", "e", "t", " ", "a", "t", " ", "d", "e", "p", "l", "o", "y", "m", "e", "n", "t", ">">>

\* one entry of props.outputs / moduleOutputs; createOutput's value is a string
Output(propertyName, value, type) ==
  [propertyName |-> propertyName, value |-> StringValue(value), type |-> type]

\* <moduleName>/module-config.json: the file is ok, missing, unreadable,
\* not JSON ("invalid") or cannot be written ("readonly")
FileStates == {"ok", "missing", "unreadable", "invalid", "readonly"}

Descriptor(file, outputs) == [file |-> file, outputs |-> outputs]

\* the outputs list after a push without the find(...) test
AddSchemaEntry_NoFind(outputs, propertyName, type) ==
  Append(outputs, Output(propertyName, Placeholder, type))

\* const existingOutput = config.outputs.find(o => o.propertyName === propertyName)
\* if (!existingOutput) config.outputs.push({propertyName, value, type})
AddSchemaEntry(outputs, propertyName, type) ==
  IF \E i \in DOMAIN outputs : outputs[i].propertyName = propertyName
  THEN outputs
  ELSE Append(outputs, Output(propertyName, Placeholder, type))

\* updateModuleConfig without its try/catch: a failed read, parse or write
\* reaches the caller
updateModuleConfig_Rethrow(desc, propertyName, type) ==
  IF desc.file = "ok"
  THEN [descriptor |-> Descriptor("ok", AddSchemaEntry(desc.outputs, propertyName, type)),
        threw |-> FALSE]
  ELSE [descriptor |-> desc, threw |-> desc.file # "missing"]

\* updateModuleConfig(propertyName, type): a missing file returns early, a
\* failed read, parse or write is caught and logged; only a readable, valid
\* and writable file is changed
updateModuleConfig(desc, propertyName, type) ==
  IF desc.file = "ok"
  THEN [descriptor |-> Descriptor("ok", AddSchemaEntry(desc.outputs, propertyName, type)),
        threw |-> FALSE]
  ELSE [descriptor |-> desc, threw |-> FALSE]

\* the part of a WdkModule that createOutput reads and changes
ModuleState(ids, buffer, desc, threw) ==
  [outputIds |-> ids, moduleOutputs |-> buffer, descriptor |-> desc, threw |-> threw]

\* createOutput on a stack that accepts a second construct with the same id
createOutput_NoIdCheck(st, name, value, type, shareable) ==
  IF ~shareable
  THEN ModuleState(st.outputIds \cup {name}, st.moduleOutputs, st.descriptor, FALSE)
  ELSE LET u == updateModuleConfig(st.descriptor, name, type)
       IN ModuleState(st.outputIds \cup {name},
                      Append(st.moduleOutputs, Output(name, value, type)),
                      u.descriptor, u.threw)

\* createOutput that records a shareable output in the descriptor only
createOutput_NoPush(st, name, value, type, shareable) ==
  IF name \in st.outputIds
  THEN ModuleState(st.outputIds, st.moduleOutputs, st.descriptor, TRUE)
  ELSE IF ~shareable
  THEN ModuleState(st.outputIds \cup {name}, st.moduleOutputs, st.descriptor, FALSE)
  ELSE LET u == updateModuleConfig(st.descriptor, name, type)
       IN ModuleState(st.outputIds \cup {name}, st.moduleOutputs, u.descriptor, u.threw)

\* createOutput(name, value, type, shareable): new cdk.CfnOutput(this, name)
\* throws when the stack already has a construct with that id; a shareable
\* output is pushed onto moduleOutputs and handed to updateModuleConfig
createOutput(st, name, value, type, shareable) ==
  IF name \in st.outputIds
  THEN ModuleState(st.outputIds, st.moduleOutputs, st.descriptor, TRUE)
  ELSE IF ~shareable
  THEN ModuleState(st.outputIds \cup {name}, st.moduleOutputs, st.descriptor, FALSE)
  ELSE LET u == updateModuleConfig(st.descriptor, name, type)
       IN ModuleState(st.outputIds \cup {name},
                      Append(st.moduleOutputs, Output(name, value, type)),
                      u.descriptor, u.threw)

Call(name, value, type, shareable) ==
  [name |-> name, value |-> value, type |-> type, shareable |-> shareable]

\* a body of initialize(): createOutput calls in sequence, up to the first
\* one that throws
RECURSIVE initialize(_, _)
initialize(st, cs) ==
  IF cs = <<>> \/ st.threw THEN st
  ELSE initialize(createOutput(st, Head(cs).name, Head(cs).value, Head(cs).type,
                               Head(cs).shareable),
                  Tail(cs))

\* config-manager.ts: `${prefixName}-${stageName}-config`
managerGetConfigTableName(prefixName, stageName) ==
  prefixName \o <<"-">> \o stageName \o <<"-", "c", "o", "n", "f", "i", "g">>

\* constructs/index.ts: `wdk-${prefixName}-${stageName}-config`
constructsGetConfigTableName(prefixName, stageName) ==
  <<"w", "d", "k", "-">> \o prefixName \o <<"-">> \o stageName \o <<"-", "c", "o", "n", "f", "i", "g">>

\* the values FoundationStack.initialize publishes: the timestamp, the
\* createdBy context value and the identifiers of the resources it creates
Timestamp == <<"t", "s">>

CreatedBy == <<"u">>

\* FoundationStack.initialize: its createOutput calls, in order
FoundationCalls(prefixName, stageName) ==
  << Call(<<"C", "r", "e", "a", "t", "e", "d", "A", "t">>, Timestamp, "string", TRUE),
     Call(<<"L", "a", "s", "t", "U", "p", "d", "a", "t", "e", "d", "A", "t">>, Timestamp, "number", TRUE),
     Call(<<"C", "r", "e", "a", "t", "e", "d", "B", "y">>, CreatedBy, "string", TRUE),
     Call(<<"C", "o", "n", "f", "i", "g", "T", "a", "b", "l", "e", "N", "a", "m", "e">>, FoundationTableName(prefixName, stageName), "string", TRUE),
     Call(<<"C", "o", "n", "f", "i", "g", "T", "a", "b", "l", "e", "A", "r", "n">>, ResourceId("tableArn"), "arn", TRUE),
     Call(<<"E", "n", "c", "r", "y", "p", "t", "i", "o", "n", "K", "e", "y", "I", "d">>, ResourceId("keyId"), "string", TRUE),
     Call(<<"E", "n", "c", "r", "y", "p", "t", "i", "o", "n", "K", "e", "y", "A", "r", "n">>, ResourceId("keyArn"), "arn", TRUE),
     Call(<<"A", "c", "c", "e", "s", "s", "L", "o", "g", "s", "B", "u", "c", "k", "e", "t", "N", "a", "m", "e">>, ResourceId("bucketName"), "string", TRUE),
     Call(<<"A", "c", "c", "e", "s", "s", "L", "o", "g", "s", "B", "u", "c", "k", "e", "t", "A", "r", "n">>, ResourceId("bucketArn"), "arn", TRUE) >>

\* String.prototype.split(separator)
RECURSIVE SplitOn(_, _)
SplitOn(s, sep) ==
  LET i == IndexOf(s, sep)
  IN IF i = -1 THEN <<s>>
     ELSE <<Slice(s, 0, i)>> \o SplitOn(Slice(s, i + 1, Len(s)), sep)

\* requiredInputsStr ? requiredInputsStr.split(',').map(s => s.trim()) : []
ParseRequiredInputs(str) ==
  IF str = <<>> THEN <<>>
  ELSE [i \in 1..Len(SplitOn(str, ",")) |-> Trim(SplitOn(str, ",")[i])]

\* main() that constructs the stack whatever the Loader did
mainOutcome_IgnoreFailure(result) == "initialize"

\* main(): a rejected loadConfigFromDynamoDB reaches main().catch and
\* process.exit(1); otherwise the stack is constructed
mainOutcome(result) == IF result.status = "error" THEN "exited" ELSE "initialize"

\* ------------------------------------------------------------------------
\* Inputs of the module specification
\* ------------------------------------------------------------------------
\* the requiredInputs context string of the consumer module
ContextInputs ==
  { <<>>,
    <<"f", "o", "u", "n", "d", "a", "t", "i", "o", "n", ".", "c", "r", "e", "a", "t", "e", "d", "A", "t">>,
    <<"f", "o", "u", "n", "d", "a", "t", "i", "o", "n", ".", "C", "r", "e", "a", "t", "e", "d", "A", "t", ",", " ", "f", "o", "u", "n", "d", "a", "t", "i", "o", "n", ".", "C", "r", "e", "a", "t", "e", "d", "B", "y">> }

OutputNames == { <<"x">>, <<"y">> }

\* value and type of a createOutput call
OutputValues == { [value |-> <<"v", "1">>, type |-> "string"],
                  [value |-> <<"v", "2">>, type |-> "number"] }

\* the outputs context of a run: none, or the descriptor's outputs list as
\* the deploy command passes it
ContextOutputs(desc) ==
  {<<>>} \cup (IF desc.file \in {"ok", "readonly"} THEN {desc.outputs} ELSE {})

\* the write requests of the Foundation's ConfigWriter for one stage
FoundationRequests(prefixName, stageName) ==
  WriteRequests(FoundationName,
                initialize(ModuleState({}, <<>>, Descriptor("missing", <<>>), FALSE),
                           FoundationCalls(prefixName, stageName)).moduleOutputs)

\* the Loader called for a table that may not exist: a request sent for a
\* missing table is rejected by client.send
LoadFrom(tableName, inputs) ==
  LET result == loadConfigFromDynamoDB(tableName, tables[tableName], inputs)
  IN IF tableName \in provisioned \/ result.reads = <<>> THEN result
     ELSE Thrown(SdkError, result.reads)

\* ------------------------------------------------------------------------
\* Module specification: runs of the foundation app and of a module app
\* against one stage, each followed by the deployment of what it synthesized
\* ------------------------------------------------------------------------
ModuleInit ==
  /\ \E bootstrapped \in BOOLEAN :
       /\ provisioned = IF bootstrapped THEN {DevTable} ELSE {}
       /\ tables = [t \in TableNames |->
                      IF bootstrapped /\ t = DevTable
                      THEN BatchWriteItem(EmptyTable,
                                          FoundationRequests(<<"p">>, <<"d", "e", "v">>))
                      ELSE EmptyTable]
  /\ requiredInputs = <<>>
  /\ queriedTable = <<>>
  /\ loadImpl = "none"
  /\ loaded = NotLoaded
  /\ reader = <<>>
  /\ got = NoGet
  /\ writerStackName = <<>>
  /\ properties = <<>>
  /\ batches = <<>>
  /\ batchState = <<>>
  /\ deploy = "none"
  /\ run = 0
  /\ phase = "idle"
  /\ exitCode = -1
  /\ app = "none"
  /\ propsOutputs = <<>>
  /\ moduleOutputs = <<>>
  /\ outputIds = {}
  /\ calls = <<>>
  /\ flushes = 0
  /\ \E file \in FileStates : descriptor = Descriptor(file, <<>>)
  /\ NoCommands

\* the previous run is over: it exited, or the stack it synthesized has been
\* deployed or has failed to deploy
RunOver ==
  \/ phase \in {"idle", "exited"}
  \/ phase = "synthesized" /\ (flushes = 0 \/ AllBatchesDone \/ deploy = "failed")

\* the end of the WdkModule constructor:
\* if (this.moduleOutputs.length > 0) new ConfigWriter(this, 'ConfigWriter', ...)
ConstructorTail(stack, buffer) ==
  /\ flushes' = IF Len(buffer) > 0 THEN 1 ELSE 0
  /\ writerStackName' = IF Len(buffer) > 0 THEN stack ELSE <<>>
  /\ properties' = buffer
  /\ batches' = Batches(WriteRequests(stack, buffer))
  /\ batchState' = [i \in 1..Len(Batches(WriteRequests(stack, buffer))) |-> "pending"]
  /\ deploy' = IF Len(buffer) > 0 THEN "deploying" ELSE "none"

\* main() of the module app up to the call of initialize(): context parsing,
\* the awaited Loader call, and the start of the WdkModule constructor
ModuleMain(str, outs) ==
  /\ RunOver /\ run < MaxRuns
  /\ LET inputs == ParseRequiredInputs(str)
         tableName == getConfigTableName(<<"p">>, <<"d", "e", "v">>)
         result == LoadFrom(tableName, inputs)
     IN /\ requiredInputs' = inputs
        /\ queriedTable' = tableName
        /\ loaded' = result
        /\ phase' = mainOutcome(result)
        /\ exitCode' = IF mainOutcome(result) = "exited" THEN 1 ELSE -1
        /\ moduleOutputs' = IF mainOutcome(result) = "exited" THEN <<>> ELSE outs
  /\ loadImpl' = "config-loader"
  /\ got' = NoGet
  /\ app' = "module"
  /\ propsOutputs' = outs
  /\ outputIds' = {}
  /\ calls' = <<>>
  /\ flushes' = 0
  /\ writerStackName' = <<>>
  /\ properties' = <<>>
  /\ batches' = <<>>
  /\ batchState' = <<>>
  /\ deploy' = "none"
  /\ run' = run + 1
  /\ UNCHANGED <<provisioned, commandVars, tables, reader, descriptor>>

\* initialize() of the module calls createOutput
CreateOutput(name, value, type, shareable) ==
  /\ phase = "initialize" /\ Len(calls) < MaxCalls
  /\ LET st == createOutput(ModuleState(outputIds, moduleOutputs, descriptor, FALSE),
                            name, value, type, shareable)
     IN /\ outputIds' = st.outputIds
        /\ moduleOutputs' = st.moduleOutputs
        /\ descriptor' = st.descriptor
        /\ phase' = IF st.threw THEN "exited" ELSE "initialize"
        /\ exitCode' = IF st.threw THEN 1 ELSE exitCode
  /\ calls' = Append(calls, Call(name, value, type, shareable))
  /\ UNCHANGED <<provisioned, commandVars, tables, requiredInputs, queriedTable, loadImpl, loaded, reader, got,
                 writerVars, app, propsOutputs, flushes>>

\* initialize() returns: the constructor flushes the buffer, main() calls
\* app.synth() and the process ends
InitializeReturns ==
  /\ phase = "initialize"
  /\ ConstructorTail(ModuleName, moduleOutputs)
  /\ phase' = "synthesized"
  /\ exitCode' = 0
  /\ UNCHANGED <<provisioned, commandVars, tables, requiredInputs, queriedTable, loadImpl, loaded, reader, got, run,
                 app, propsOutputs, moduleOutputs, outputIds, calls, descriptor>>

\* main() of foundation-app.ts: no Loader call, outputs = [], and the
\* FoundationStack constructor with its initialize(); foundation/module-config.json
\* does not exist
FoundationMain ==
  /\ RunOver /\ run < MaxRuns
  /\ LET st == initialize(ModuleState({}, <<>>, Descriptor("missing", <<>>), FALSE),
                          FoundationCalls(<<"p">>, <<"d", "e", "v">>))
     IN /\ outputIds' = st.outputIds
        /\ moduleOutputs' = st.moduleOutputs
        /\ phase' = IF st.threw THEN "exited" ELSE "synthesized"
        /\ exitCode' = IF st.threw THEN 1 ELSE 0
        /\ ConstructorTail(FoundationName, IF st.threw THEN <<>> ELSE st.moduleOutputs)
  /\ calls' = FoundationCalls(<<"p">>, <<"d", "e", "v">>)
  /\ app' = "foundation"
  /\ propsOutputs' = <<>>
  /\ requiredInputs' = <<>>
  /\ queriedTable' = <<>>
  /\ loadImpl' = "none"
  /\ loaded' = NotLoaded
  /\ got' = NoGet
  /\ run' = run + 1
  /\ UNCHANGED <<provisioned, commandVars, tables, reader, descriptor>>

\* CloudFormation creates the table of the foundation stack
CreateTable ==
  /\ app = "foundation" /\ deploy = "deploying"
  /\ DevTable \notin provisioned
  /\ provisioned' = provisioned \cup {DevTable}
  /\ UNCHANGED <<commandVars, tables, loaderVars, writerVars, moduleVars>>

\* the creation of the table fails: the deployment fails and no further
\* resource is started
CreateTableFails ==
  /\ app = "foundation" /\ deploy = "deploying"
  /\ DevTable \notin provisioned
  /\ deploy' = "failed"
  /\ UNCHANGED <<provisioned, commandVars, tables, loaderVars, writerStackName, properties,
                 batches, batchState, run, moduleVars>>

ModuleNext ==
  \/ \E str \in ContextInputs, outs \in ContextOutputs(descriptor) : ModuleMain(str, outs)
  \/ \E name \in OutputNames, v \in OutputValues, shareable \in BOOLEAN :
       CreateOutput(name, v.value, v.type, shareable)
  \/ InitializeReturns
  \/ FoundationMain
  \/ CreateTable
  \/ CreateTableFails
  \/ \E i \in DOMAIN batchState : StartBatch(i)
  \/ \E i \in DOMAIN batchState : BatchSucceeds(i)
  \/ \E i \in DOMAIN batchState : BatchFails(i)

ModuleSpec == ModuleInit /\ [][ModuleNext]_vars

\* ------------------------------------------------------------------------
\* CLI commands: init, add-stage and add-module
\* ------------------------------------------------------------------------
MaxCommands == 4

LowerLetters ==
  <<"a", "b", "c", "d", "e", "f", "g", "h", "i", "j", "k", "l", "m",
    "n", "o", "p", "q", "r", "s", "t", "u", "v", "w", "x", "y", "z">>

UpperLetters ==
  <<"A", "B", "C", "D", "E", "F", "G", "H", "I", "J", "K", "L", "M",
    "N", "O", "P", "Q", "R", "S", "T", "U", "V", "W", "X", "Y", "Z">>

\* String.prototype.toLowerCase
toLowerCase(s) ==
  [i \in 1..Len(s) |->
     IF s[i] \in Range(UpperLetters)
     THEN LowerLetters[CHOOSE k \in 1..26 : UpperLetters[k] = s[i]]
     ELSE s[i]]

\* init.ts, the projectPrefix prompt: validate accepts an input when it
\* returns true; an input it rejects is asked for again
validateProjectPrefix(input) ==
  LET trimmed == toLowerCase(Trim(input))
  IN /\ Len(trimmed) > 0
     /\ Len(trimmed) <= 10
     /\ \A i \in 1..Len(trimmed) : trimmed[i] \in Range(LowerLetters)

\* init.ts, the projectPrefix prompt: filter: (input) => input.trim().toLowerCase()
filterProjectPrefix(input) == toLowerCase(Trim(input))

TenLetters == [i \in 1..10 |-> "a"]

\* what is typed at the projectPrefix prompt
PrefixInputs ==
  { <<"p">>, <<" ", "P">>, <<"p", "1">>, <<"p", "-", "d", "e", "v">>,
    TenLetters, Append(TenLetters, "a") }

AcceptedPrefixes ==
  {filterProjectPrefix(x) : x \in {y \in PrefixInputs : validateProjectPrefix(y)}}

\* add-stage.ts: const AVAILABLE_STAGES = ['local', 'dev', 'test', 'prod']
AVAILABLE_STAGES ==
  << <<"l", "o", "c", "a", "l">>, <<"d", "e", "v">>,
     <<"t", "e", "s", "t">>, <<"p", "r", "o", "d">> >>

\* AVAILABLE_STAGES.filter(stage => !existingStages.includes(stage))
availableStages(existingStages) ==
  SelectSeq(AVAILABLE_STAGES, LAMBDA stage : stage \notin Range(existingStages))

\* the tables the commands of the accepted projects can name
CommandTables ==
  {getConfigTableName(p, s) : p \in AcceptedPrefixes, s \in Range(AVAILABLE_STAGES)}

\* add-stage goes on to the foundation deployment although the bootstrap failed
afterBootstrap_IgnoreFailure(code) == "foundation"

\* if (!cdkBootstrapSuccess) return; the process of runCdkBootstrap closed
\* with this code
afterBootstrap(code) == IF code = 0 THEN "foundation" ELSE "done"

\* if (!foundationDeploySuccess) return; TRUE when add-stage goes on to
\* write the files
afterFoundation(code) == code = 0

\* how the cdk deploy process of the foundation stack can end: deployed, or
\* failed before or after the table was created (the table is retained)
FoundationOutcomes == {"deployed", "failed", "failed-table-kept"}

\* an answer of the prompts: a string, a boolean, or nothing under that name
StringAnswer(s) == [t |-> "string", s |-> s, b |-> FALSE]

BooleanAnswer(b) == [t |-> "boolean", s |-> <<>>, b |-> b]

NoAnswer == [t |-> "undefined", s |-> <<>>, b |-> FALSE]

\* one setupQuestions entry of a module-config.json with what the developer
\* answers to it
SetupQuestion(propertyName, type, answer) ==
  [propertyName |-> propertyName, type |-> type, answer |-> answer]

\* the answers hash of inquirer: a question name with a period is stored as
\* a path, so nothing is stored under the name itself
AnswerOf(q) ==
  IF \E i \in 1..Len(q.propertyName) : q.propertyName[i] = "." THEN NoAnswer ELSE q.answer

\* typeof rawValue === 'string' ? rawValue : JSON.stringify(rawValue)
valueStr(rawValue) ==
  IF rawValue.t = "string" THEN rawValue.s
  ELSE IF rawValue.t = "boolean"
       THEN (IF rawValue.b THEN <<"t", "r", "u", "e">> ELSE <<"f", "a", "l", "s", "e">>)
       ELSE Undefined

\* const setupStackName = `${trimmed}.setup`
setupStackName(moduleName) == moduleName \o <<".", "s", "e", "t", "u", "p">>

\* setupQuestions.map((q) => `${setupStackName}.${q.propertyName}`)
setupRequiredInputs(moduleName, questions) ==
  [i \in 1..Len(questions) |->
     RefOf(setupStackName(moduleName), questions[i].propertyName)]

\* Array.from(new Set([...existingRequiredInputs, ...setupRequiredInputs])),
\* reached only when no write threw
mergedRequiredInputs(existing, moduleName, questions, ok) ==
  IF ok THEN Unique(existing \o setupRequiredInputs(moduleName, questions)) ELSE existing

\* the PutItem request of one setup question
SetupItem(moduleName, q) ==
  [stackName |-> setupStackName(moduleName), propertyName |-> q.propertyName,
   value |-> valueStr(AnswerOf(q)), type |-> q.type]

\* DynamoDB PutItem: the table must exist, key attributes must not be empty
\* and every attribute needs a value
PutItemAccepted(tableName, item) ==
  /\ tableName \in provisioned
  /\ item.stackName # <<>> /\ item.propertyName # <<>>
  /\ item.value # Undefined

Host == <<"h", "o", "s", "t">>

\* the module repositories add-module can clone: requiredInputs and
\* setupQuestions of their module-config.json
Repo(inputs, questions) == [requiredInputs |-> inputs, setupQuestions |-> questions]

ModuleRepos ==
  { Repo(<<>>, <<>>),
    Repo(<<>>, <<SetupQuestion(Host, "string", StringAnswer(<<"h", "1">>))>>),
    Repo(<<RefOf(FoundationName, <<"C", "r", "e", "a", "t", "e", "d", "A", "t">>)>>,
         <<SetupQuestion(Host, "string", StringAnswer(<<"h", "1">>)),
           SetupQuestion(<<"o", "n">>, "boolean", BooleanAnswer(TRUE))>>),
    Repo(<<>>, <<SetupQuestion(<<"d", "b", ".", "h">>, "string", StringAnswer(<<"h", "1">>))>>),
    Repo(<<>>, <<SetupQuestion(Append(Host, " "), "string", StringAnswer(<<"h", "1">>))>>) }

\* the longest requiredInputs add-module can write for these repositories
MaxRequiredInputs == 3

CommandInit ==
  /\ tables = [t \in CommandTables |-> EmptyTable]
  /\ requiredInputs = <<>>
  /\ queriedTable = <<>>
  /\ loadImpl = "none"
  /\ loaded = NotLoaded
  /\ reader = <<>>
  /\ got = NoGet
  /\ writerStackName = <<>>
  /\ properties = <<>>
  /\ batches = <<>>
  /\ batchState = <<>>
  /\ deploy = "none"
  /\ run = 0
  /\ phase = "idle"
  /\ exitCode = -1
  /\ app = "none"
  /\ propsOutputs = <<>>
  /\ moduleOutputs = <<>>
  /\ outputIds = {}
  /\ calls = <<>>
  /\ flushes = 0
  /\ descriptor = Descriptor("missing", <<>>)
  /\ provisioned = {}
  /\ NoCommands

\* no command is running and another one may be started
Prompt == command.step = "done" /\ command.count < MaxCommands

\* the table of the stage the running command selected
CommandTable == getConfigTableName(coreJson[command.dir].projectPrefix, command.stage)

\* init in a directory without wdk/core.json, with the prefix the prompt accepted
Init(d, input) ==
  /\ Prompt
  /\ ~coreJson[d].present
  /\ validateProjectPrefix(input)
  /\ coreJson' = [coreJson EXCEPT ![d] = CoreConfig(TRUE, filterProjectPrefix(input), <<>>)]
  /\ command' = Command("init", d, <<>>, "done", <<>>, 0, command.count + 1, <<>>, 0)
  /\ UNCHANGED <<tables, provisioned, stageFiles, moduleDir, loaderVars, writerVars, moduleVars>>

\* add-stage up to the spawn of cdk bootstrap: the stage is one of the
\* choices left after the filter
AddStage(d, stage) ==
  /\ Prompt
  /\ coreJson[d].present
  /\ stage \in Range(availableStages(coreJson[d].stages))
  /\ command' = Command("add-stage", d, stage, "bootstrap", <<>>, -1, command.count + 1, <<>>, 0)
  /\ UNCHANGED <<tables, provisioned, coreJson, stageFiles, moduleDir, loaderVars,
                 writerVars, moduleVars>>

\* the cdk bootstrap process closes: add-stage returns or spawns the
\* deployment of the foundation stack
BootstrapCloses(code) ==
  /\ command.name = "add-stage" /\ command.step = "bootstrap"
  /\ command' = [command EXCEPT !.step = afterBootstrap(code),
                                !.log = Append(@, <<"bootstrap", code>>),
                                !.code = IF afterBootstrap(code) = "done" THEN 0 ELSE -1]
  /\ UNCHANGED <<tables, provisioned, coreJson, stageFiles, moduleDir, loaderVars,
                 writerVars, moduleVars>>

\* the cdk deploy process of the foundation stack closes with what it did
\* to the account; add-stage writes <stage>.json and core.json, or returns
FoundationCloses(outcome) ==
  /\ command.name = "add-stage" /\ command.step = "foundation"
  /\ LET code == IF outcome = "deployed" THEN 0 ELSE 1
         name == FoundationTableName(coreJson[command.dir].projectPrefix, command.stage)
         rec  == afterFoundation(code)
     IN /\ provisioned' = IF outcome = "failed" THEN provisioned ELSE provisioned \cup {name}
        /\ tables' = IF outcome = "deployed"
                     THEN [tables EXCEPT ![name] =
                             BatchWriteItem(@, FoundationRequests(
                               coreJson[command.dir].projectPrefix, command.stage))]
                     ELSE tables
        /\ stageFiles' = IF rec THEN stageFiles \cup {<<command.dir, command.stage>>}
                         ELSE stageFiles
        /\ coreJson' = IF rec
                       THEN [coreJson EXCEPT ![command.dir].stages = Append(@, command.stage)]
                       ELSE coreJson
        /\ command' = [command EXCEPT
                         !.step = "done",
                         !.log = Append(@, <<"foundation", code>>)
                                   \o (IF rec THEN << <<"recorded", 0>> >> ELSE <<>>),
                         !.code = 0]
  /\ UNCHANGED <<moduleDir, loaderVars, writerVars, moduleVars>>

\* add-module m up to the DescribeTable request: the checks on core.json and
\* <stage>.json, the clone, and the prompts of the setup questions
AddModule(d, stage, cloned, repo) ==
  /\ Prompt
  /\ coreJson[d].present
  /\ stage \in Range(coreJson[d].stages)
  /\ <<d, stage>> \in stageFiles
  /\ ~moduleDir[d].present
  /\ moduleDir' = IF cloned THEN [moduleDir EXCEPT ![d] = ModuleConfig(TRUE, repo.requiredInputs)]
                  ELSE moduleDir
  /\ command' =
       IF ~cloned
       THEN Command("add-module", d, stage, "done", <<>>, 1, command.count + 1, <<>>, 0)
       ELSE IF Len(repo.setupQuestions) = 0
       THEN Command("add-module", d, stage, "done", <<>>, 0, command.count + 1, <<>>, 0)
       ELSE Command("add-module", d, stage, "describe", <<>>, -1, command.count + 1,
                    repo.setupQuestions, 0)
  /\ UNCHANGED <<tables, provisioned, coreJson, stageFiles, loaderVars, writerVars, moduleVars>>

\* the DescribeTable request returns or throws; on a throw process.exit(1)
DescribeTableReturns(ok) ==
  /\ command.name = "add-module" /\ command.step = "describe"
  /\ ok => CommandTable \in provisioned
  /\ command' = [command EXCEPT !.step = IF ok THEN "put" ELSE "done",
                                !.at = IF ok THEN 1 ELSE 0,
                                !.code = IF ok THEN -1 ELSE 1]
  /\ UNCHANGED <<tables, provisioned, coreJson, stageFiles, moduleDir, loaderVars,
                 writerVars, moduleVars>>

\* the PutItem request of the question at hand returns or throws: on a
\* throw process.exit(1); after the last question requiredInputs is merged
\* and module-config.json is written
PutItemReturns(ok) ==
  /\ command.name = "add-module" /\ command.step = "put"
  /\ LET item == SetupItem(ModuleName, command.questions[command.at])
         last == command.at = Len(command.questions)
     IN /\ ok => PutItemAccepted(CommandTable, item)
        /\ tables' = IF ok THEN [tables EXCEPT ![CommandTable] = Put(@, item)] ELSE tables
        /\ moduleDir' =
             [moduleDir EXCEPT ![command.dir].requiredInputs =
                mergedRequiredInputs(@, ModuleName, command.questions, ok /\ last)]
        /\ command' = [command EXCEPT
                         !.step = IF ok /\ ~last THEN "put" ELSE "done",
                         !.at = IF ok /\ ~last THEN @ + 1 ELSE @,
                         !.log = Append(@, <<"put", IF ok THEN 0 ELSE 1>>),
                         !.code = IF ~ok THEN 1 ELSE IF last THEN 0 ELSE -1]
  /\ UNCHANGED <<provisioned, coreJson, stageFiles, loaderVars, writerVars, moduleVars>>

\* add-module configured the module
Configured ==
  /\ command.name = "add-module" /\ command.step = "done" /\ command.code = 0
  /\ Len(command.questions) > 0

\* a deployment of the configured module loads reference i of its requiredInputs
LoadRequiredInput(i) ==
  /\ Configured
  /\ i \in DOMAIN moduleDir[command.dir].requiredInputs
  /\ loadImpl = "none"
  /\ requiredInputs' = <<moduleDir[command.dir].requiredInputs[i]>>
  /\ queriedTable' = CommandTable
  /\ loadImpl' = "config-loader"
  /\ loaded' = loadConfigFromDynamoDB(CommandTable, tables[CommandTable],
                                      <<moduleDir[command.dir].requiredInputs[i]>>)
  /\ UNCHANGED <<tables, provisioned, commandVars, reader, got, writerVars, moduleVars>>

CommandNext ==
  \/ \E d \in Dirs, input \in PrefixInputs : Init(d, input)
  \/ \E d \in Dirs, stage \in Range(AVAILABLE_STAGES) : AddStage(d, stage)
  \/ \E code \in {0, 1} : BootstrapCloses(code)
  \/ \E outcome \in FoundationOutcomes : FoundationCloses(outcome)
  \/ \E d \in Dirs, stage \in Range(AVAILABLE_STAGES), cloned \in BOOLEAN,
        repo \in ModuleRepos : AddModule(d, stage, cloned, repo)
  \/ \E ok \in BOOLEAN : DescribeTableReturns(ok)
  \/ \E ok \in BOOLEAN : PutItemReturns(ok)
  \/ \E i \in 1..MaxRequiredInputs : LoadRequiredInput(i)

CommandSpec == CommandInit /\ [][CommandNext]_vars

\* ------------------------------------------------------------------------
\* Vocabulary of the Loader claims, stated without the Loader's operators
\* ------------------------------------------------------------------------
NoDot(s) == \A i \in 1..Len(s) : s[i] # "."

EndsWithDot(s) == Len(s) > 0 /\ s[Len(s)] = "."

Blank(s) == \A i \in 1..Len(s) : s[i] = " "

Padded(s) == Len(s) > 0 /\ (s[1] = " " \/ s[Len(s)] = " ")

\* "<producer>.<property>": something before the last dot, something after it
WellFormed(s) ==
  \E i \in 2..(Len(s) - 1) : s[i] = "." /\ \A j \in (i + 1)..Len(s) : s[j] # "."

\* the reference addresses an entry of the table: some key whose property has
\* no dot spells it as "<producer>.<property>"
Stored(ref, tbl) ==
  \E k \in DOMAIN tbl : RefOf(k[1], k[2]) = ref /\ NoDot(k[2])

StoredValue(ref, tbl) ==
  tbl[CHOOSE k \in DOMAIN tbl : RefOf(k[1], k[2]) = ref /\ NoDot(k[2])].value

Requested == Range(requiredInputs)

LoaderRan == loadImpl = "config-loader"

\* ------------------------------------------------------------------------
\* C1
\* ------------------------------------------------------------------------
\* C1 as stated: a call of loadConfigFromDynamoDB (config-loader.ts) either
\* throws or returns a mapping that contains every originally requested
\* reference, and it throws whenever some requested reference has no entry.
C1_AsStated ==
  LoaderRan =>
    /\ loaded.status = "ok" => \A r \in Requested : r \in DOMAIN loaded.config
    /\ (\E r \in Requested : ~Stored(r, tables[queriedTable])) => loaded.status = "error"

\* C1 amended: the same for every requested entry that is not blank (empty
\* after trimming); a thrown load hands over no mapping at all.
C1_AllOrNothing ==
  LoaderRan =>
    /\ loaded.status \in {"ok", "error"}
    /\ loaded.status = "ok" =>
         \A r \in Requested : ~Blank(r) => r \in DOMAIN loaded.config
    /\ (\E r \in Requested : ~Blank(r) /\ ~Stored(r, tables[queriedTable]))
         => loaded.status = "error" /\ loaded.config = EmptyMap

\* C1 witness: two references requested, one stored and one not, and the
\* load threw.
C1_Witness ==
  /\ LoaderRan /\ Len(requiredInputs) = 2
  /\ Stored(requiredInputs[1], tables[queriedTable])
  /\ WellFormed(requiredInputs[2]) /\ ~Stored(requiredInputs[2], tables[queriedTable])
  /\ loaded.status = "error"

\* ------------------------------------------------------------------------
\* C2
\* ------------------------------------------------------------------------
Offending(r) == NoDot(r) \/ EndsWithDot(r)

ParseFailure ==
  /\ loaded.status = "error"
  /\ loaded.error.kind = "InvalidFormat"
  /\ \E r \in Requested : loaded.error.input = Trim(r) /\ ~WellFormed(Trim(r))
  /\ loaded.reads = <<>>

\* C2 as stated: a request list that contains a reference with no dot, or
\* with nothing after its final dot, fails with a parse error naming the
\* offending string, and no BatchGetItem is issued.
C2_AsStated ==
  (LoaderRan /\ \E r \in Requested : Offending(r)) => ParseFailure

\* C2 amended: the same for a request list that contains a non-blank entry
\* with no dot or with nothing after its final dot.
C2_ParseErrorBeforeRead ==
  (LoaderRan /\ \E r \in Requested : ~Blank(r) /\ Offending(r)) => ParseFailure

\* C2 witness: a well-formed stored reference next to one without a dot.
C2_Witness ==
  /\ LoaderRan /\ Len(requiredInputs) = 2
  /\ Stored(requiredInputs[1], tables[queriedTable])
  /\ requiredInputs[2] = <<"a">>
  /\ loaded.error.kind = "InvalidFormat" /\ loaded.reads = <<>>

\* ------------------------------------------------------------------------
\* C3
\* ------------------------------------------------------------------------
\* C3: in every call of an exported loadConfigFromDynamoDB that issues a
\* read, each requested reference with a dot is queried under the key whose
\* producer is the text before its last dot and whose property is the text
\* after it.
C3_SplitsOnLastDot ==
  (loadImpl # "none" /\ loaded.reads # <<>>) =>
    \A r \in Requested :
      WellFormed(Trim(r)) =>
        \E k \in Range(loaded.reads[1]) :
          RefOf(k[1], k[2]) \in {r, Trim(r)} /\ NoDot(k[2])

\* ------------------------------------------------------------------------
\* C4
\* ------------------------------------------------------------------------
NamesMissingReference ==
  /\ loaded.status = "error"
  /\ loaded.error.kind = "NotFound"
  /\ loaded.error.input \in Requested
  /\ ~Stored(loaded.error.input, tables[queriedTable])
  /\ loaded.error.table = queriedTable
  /\ loaded.config = EmptyMap

\* C4 as stated: when at least one requested well-formed reference is absent
\* from the store, the error names a missing reference and the table queried.
C4_AsStated ==
  (LoaderRan /\ \E r \in Requested : WellFormed(r) /\ ~Stored(r, tables[queriedTable]))
    => NamesMissingReference

\* C4 for request lists without malformed or padded entries: when every
\* requested reference is well-formed and free of surrounding whitespace
\* and at least one of them is absent from the store, the error names a
\* missing reference and the table queried, and no mapping is returned.
C4_MissingNamesRefAndTable ==
  ( /\ LoaderRan
    /\ \A r \in Requested : WellFormed(r) /\ ~Padded(r)
    /\ \E r \in Requested : ~Stored(r, tables[queriedTable]) )
    => NamesMissingReference

\* ------------------------------------------------------------------------
\* C5
\* ------------------------------------------------------------------------
\* C5: no read path returns a value for a key that has no entry: the Loader
\* throws for a requested (non-blank) reference without an entry in the
\* store, and getConfigValue, getInput and ConfigReader.getValue fail for a
\* key that is not in the loaded config.
C5_NoDefaultForMissing ==
  /\ (loadImpl # "none" /\ \E r \in Requested : ~Blank(r) /\ ~Stored(r, tables[queriedTable]))
       => loaded.status = "error"
  /\ (got.fn \in {"getInput", "getConfigValue"}
      /\ RefOf(got.stackName, got.propertyName) \notin DOMAIN loaded.config)
       => got.result.status = "error"
  /\ (got.fn = "getValue" /\ got.propertyName \notin Range(reader))
       => got.result.status = "error"

\* ------------------------------------------------------------------------
\* C6
\* ------------------------------------------------------------------------
GotRef == RefOf(got.stackName, got.propertyName)

\* C6: getInput(producer, property) returns the value the Loader resolved
\* for '<producer>.<property>', which is the store's value for that
\* reference, and throws for every reference that was not requested or is
\* not in the loaded config.
C6_GetInputExact ==
  got.fn = "getInput" =>
    /\ GotRef \in DOMAIN loaded.config =>
         /\ got.result = Got(loaded.config[GotRef])
         /\ GotRef \in Requested
         /\ Stored(GotRef, tables[queriedTable])
         /\ got.result.value = StoredValue(GotRef, tables[queriedTable])
    /\ (GotRef \notin DOMAIN loaded.config \/ GotRef \notin Requested)
         => got.result.status = "error"

\* C6 witness: a loaded config with two entries, and a getInput call for a
\* reference that was not declared.
C6_Witness ==
  /\ got.fn = "getInput"
  /\ Cardinality(DOMAIN loaded.config) = 2
  /\ GotRef \notin Requested
  /\ got.result.status = "error"

\* ------------------------------------------------------------------------
\* Vocabulary of the Writer claims
\* ------------------------------------------------------------------------
RECURSIVE Concat(_)
Concat(ss) == IF ss = <<>> THEN <<>> ELSE Head(ss) \o Concat(Tail(ss))

CeilDiv(n, d) == (n + d - 1) \div d

WriterBuilt == deploy # "none"

\* no later entry of the list has the entry's propertyName
LastWithName(i) ==
  \A j \in (i + 1)..Len(properties) :
    properties[j].propertyName # properties[i].propertyName

\* the store holds exactly this write request under its key
Persisted(r) ==
  /\ <<r.stackName, r.propertyName>> \in DOMAIN tables[DevTable]
  /\ tables[DevTable][<<r.stackName, r.propertyName>>] = Item(r.value, r.type)

\* the write requests of batch b whose propertyName occurs once in the call
UniqueRequests(b) ==
  {r \in Range(batches[b]) :
     Cardinality({i \in DOMAIN properties : properties[i].propertyName = r.propertyName}) = 1}

\* ------------------------------------------------------------------------
\* C7
\* ------------------------------------------------------------------------
\* C7: for an output list of size N >= 1 the ConfigWriter builds exactly
\* ceil(N/25) batches of at most 25 write requests each, and the batches
\* concatenated in order are the input list, entry by entry.
C7_BatchPartition ==
  (WriterBuilt /\ Len(properties) >= 1) =>
    /\ Len(batches) = CeilDiv(Len(properties), 25)
    /\ \A b \in DOMAIN batches : Len(batches[b]) \in 1..25
    /\ Len(Concat(batches)) = Len(properties)
    /\ \A i \in DOMAIN properties :
         /\ Concat(batches)[i].stackName = writerStackName
         /\ Concat(batches)[i].propertyName = properties[i].propertyName
         /\ Concat(batches)[i].type = properties[i].type
         /\ properties[i].value.t = "string"
              => Concat(batches)[i].value = properties[i].value.s

\* C7 witness: 30 outputs split into a batch of 25 and a batch of 5.
C7_Witness ==
  /\ WriterBuilt /\ Len(properties) = 30
  /\ Len(batches) = 2 /\ Len(batches[1]) = 25 /\ Len(batches[2]) = 5

C9_AbortAfterFailedChunk ==
  \A k \in DOMAIN batchState :
    batchState[k] = "failed" =>
      /\ \A j \in (k + 1)..Len(batchState) :
           batchState[j] = "pending" /\ \A r \in UniqueRequests(j) : ~Persisted(r)
      /\ \A j \in 1..(k - 1) :
           batchState[j] = "done" /\ \A r \in UniqueRequests(j) : Persisted(r)

\* ------------------------------------------------------------------------
\* C10
\* ------------------------------------------------------------------------
\* C10: the write of chunk i+1 never starts before the write of chunk i has
\* completed.
C10_ChunksInOrder ==
  \A i \in 1..(Len(batchState) - 1) :
    batchState[i + 1] # "pending" => batchState[i] = "done"

\* ------------------------------------------------------------------------
\* C11
\* ------------------------------------------------------------------------
\* the write request the ConfigWriter builds for entry i
RequestOf(i) == PutRequest(writerStackName, properties[i])

HasDuplicateNames ==
  \E i, j \in DOMAIN properties :
    i # j /\ properties[i].propertyName = properties[j].propertyName

\* C11: once every batch of a Writer call has succeeded, the store holds
\* under each (producer, propertyName) key the value and type of the last
\* entry of the list with that propertyName, duplicates included.
C11_LastDuplicateWins ==
  AllBatchesDone =>
    \A i \in DOMAIN properties : LastWithName(i) => Persisted(RequestOf(i))

\* ------------------------------------------------------------------------
\* C12
\* ------------------------------------------------------------------------
WrittenKeys == {<<r.stackName, r.propertyName>> : r \in Range(Concat(batches))}

\* every entry of the call with the request's propertyName is the same entry
WrittenTheSame(r) ==
  \A q \in Range(Concat(batches)) : q.propertyName = r.propertyName => q = r

ReturnedCalls == {c \in DOMAIN calls : c < Len(calls) \/ phase # "exited"}

ShareableCalls == {c \in DOMAIN calls : calls[c].shareable}

\* the last shareable call for the name of call c
LastCallFor(c) ==
  calls[MaxOf({k \in ShareableCalls : calls[k].name = calls[c].name})]

BufferEntries(n) == {i \in DOMAIN moduleOutputs : moduleOutputs[i].propertyName = n}

SchemaEntries(n) ==
  {i \in DOMAIN descriptor.outputs : descriptor.outputs[i].propertyName = n}

\* the shareable outputs declared by the first k calls, in call order
RECURSIVE Declared(_)
Declared(k) ==
  IF k = 0 THEN <<>>
  ELSE IF calls[k].shareable
  THEN Append(Declared(k - 1), Output(calls[k].name, calls[k].value, calls[k].type))
  ELSE Declared(k - 1)

\* ------------------------------------------------------------------------
\* C13
\* ------------------------------------------------------------------------
\* C13: after any sequence of shareable createOutput calls of a run, the
\* pending buffer holds exactly one entry for each declared propertyName,
\* and it carries the value and type of the last call for that name.
C13_BufferIdempotentByName ==
  (ShareableCalls = DOMAIN calls) =>
  \A c \in ShareableCalls :
    /\ Cardinality(BufferEntries(calls[c].name)) = 1
    /\ \A i \in BufferEntries(calls[c].name) :
         moduleOutputs[i] =
           Output(calls[c].name, LastCallFor(c).value, LastCallFor(c).type)

\* ------------------------------------------------------------------------
\* C14
\* ------------------------------------------------------------------------
\* C14: the outputs list of the descriptor file, which starts without
\* duplicates, never holds two schema entries with the same propertyName,
\* whatever createOutput calls the runs make.
C14_DescriptorNoDuplicates ==
  \A i, j \in DOMAIN descriptor.outputs :
    i # j => descriptor.outputs[i].propertyName # descriptor.outputs[j].propertyName

\* C14 witness: a second run declared a shareable output whose schema entry
\* the first run had added, and the descriptor still holds one entry.
C14_Witness ==
  /\ run = 2 /\ app = "module" /\ descriptor.file = "ok" /\ phase = "synthesized"
  /\ Len(descriptor.outputs) = 1
  /\ \E i \in DOMAIN propsOutputs, c \in ShareableCalls :
       propsOutputs[i].propertyName = calls[c].name

\* ------------------------------------------------------------------------
\* C15
\* ------------------------------------------------------------------------
\* C15: after a shareable createOutput call returned in a run whose
\* descriptor file is readable and writable, the schema entry of its
\* propertyName carries the valueType of that call, also when an entry with
\* another valueType existed before.
C15_LastTypeWins ==
  (app = "module" /\ descriptor.file = "ok") =>
    \A c \in ShareableCalls \cap ReturnedCalls :
      /\ SchemaEntries(calls[c].name) # {}
      /\ \A i \in SchemaEntries(calls[c].name) : descriptor.outputs[i].type = calls[c].type

\* ------------------------------------------------------------------------
\* C16
\* ------------------------------------------------------------------------
\* the buffer is the construction-time outputs followed by the shareable
\* outputs declared during initialize, and nothing is flushed before
\* initialize has returned
FullBuffer ==
  /\ phase = "initialize" => flushes = 0 /\ batches = <<>>
  /\ phase = "synthesized" => moduleOutputs = propsOutputs \o Declared(Len(calls))

\* C16 as stated: every run whose initialize completes makes exactly one
\* flush through the Writer, after initialize returned, of the full buffer.
C16_AsStated ==
  /\ FullBuffer
  /\ phase = "synthesized" => flushes = 1 /\ properties = moduleOutputs

\* C16 amended: every run whose initialize completes with a non-empty
\* buffer makes exactly one flush through the Writer, after initialize
\* returned, of the full buffer; a run whose buffer is empty creates no
\* Writer and writes nothing.
C16_OneFlushOfFullBuffer ==
  /\ FullBuffer
  /\ (phase = "synthesized" /\ moduleOutputs # <<>>) =>
       /\ flushes = 1 /\ properties = moduleOutputs
       /\ Len(Concat(batches)) = Len(moduleOutputs)
  /\ (phase = "synthesized" /\ moduleOutputs = <<>>) => flushes = 0 /\ batches = <<>>

\* C16 witness: a run with one construction-time output and one shareable
\* output declared during initialize flushed both.
C16_Witness ==
  /\ app = "module" /\ phase = "synthesized" /\ flushes = 1
  /\ Len(propsOutputs) = 1 /\ Cardinality(ShareableCalls) = 1
  /\ Len(properties) = 2

\* ------------------------------------------------------------------------
\* C17
\* ------------------------------------------------------------------------
\* C17: in a run of the module app, initialize only runs once the Loader
\* has returned a mapping with every (non-blank) required input; when the
\* Loader fails the process exits with code 1, no createOutput call is
\* made, and no Writer is created.
C17_LoadBeforeLogic ==
  app = "module" =>
    /\ loaded.status \in {"ok", "error"}
    /\ (phase \in {"initialize", "synthesized"} \/ calls # <<>>) =>
         /\ loaded.status = "ok"
         /\ \A r \in Requested : ~Blank(r) => r \in DOMAIN loaded.config
    /\ loaded.status = "error" =>
         /\ phase = "exited" /\ exitCode = 1
         /\ calls = <<>> /\ outputIds = {} /\ moduleOutputs = <<>>
         /\ flushes = 0 /\ batches = <<>> /\ deploy = "none"

\* C17 witness: the consumer requires foundation.createdAt, the store has
\* no such entry, and the run exited with code 1.
C17_Witness ==
  /\ app = "module" /\ Len(requiredInputs) = 1
  /\ loaded.status = "error" /\ loaded.error.kind = "NotFound"
  /\ phase = "exited" /\ exitCode = 1

\* ------------------------------------------------------------------------
\* C18
\* ------------------------------------------------------------------------
\* the first call of the run with its name
FirstWithName(c) == \A k \in 1..(c - 1) : calls[k].name # calls[c].name

\* C18: when the descriptor file is missing, unreadable, not JSON or not
\* writable, a shareable createOutput call (for a name not declared before
\* in the run) returns normally and its output is in the pending buffer;
\* when initialize completes the output is handed to the Writer, and when
\* the deployment succeeds it is in the store.
C18_DescriptorFailureHarmless ==
  (app = "module" /\ descriptor.file # "ok") =>
    \A c \in ShareableCalls :
      FirstWithName(c) =>
        /\ c \in ReturnedCalls
        /\ \E i \in DOMAIN moduleOutputs :
             moduleOutputs[i] = Output(calls[c].name, calls[c].value, calls[c].type)
        /\ phase = "synthesized" =>
             /\ exitCode = 0 /\ flushes = 1
             /\ \E i \in DOMAIN properties :
                  properties[i] = Output(calls[c].name, calls[c].value, calls[c].type)
        /\ (phase = "synthesized" /\ AllBatchesDone) =>
             Persisted(PutRequest(ModuleName,
                                  Output(calls[c].name, calls[c].value, calls[c].type)))

\* C18 witness: the descriptor file is not JSON, and a shareable output of
\* the run is in the store after the deployment.
C18_Witness ==
  /\ app = "module" /\ descriptor.file = "invalid"
  /\ phase = "synthesized" /\ AllBatchesDone
  /\ \E c \in ShareableCalls :
       Persisted(PutRequest(ModuleName,
                            Output(calls[c].name, calls[c].value, calls[c].type)))

\* ------------------------------------------------------------------------
\* C19
\* ------------------------------------------------------------------------
\* C19: for every (projectPrefix, stage) the table Foundation provisions,
\* the table the Writer of a WdkModule writes to, and the tables named by
\* getConfigTableName of config-loader.ts (module apps, add-module) and of
\* constructs/index.ts are the same, and it is the table a run queries.
C19_OneStoreIdentity ==
  /\ \A p \in Prefixes, s \in Stages :
       /\ managerGetConfigTableName(p, s) = FoundationTableName(p, s)
       /\ getConfigTableName(p, s) = FoundationTableName(p, s)
       /\ constructsGetConfigTableName(p, s) = FoundationTableName(p, s)
  /\ queriedTable # <<>> => queriedTable = FoundationTableName(<<"p">>, <<"d", "e", "v">>)

\* ------------------------------------------------------------------------
\* C20
\* ------------------------------------------------------------------------
\* every output of FoundationStack.initialize is in the store under
\* producer 'foundation'
FoundationPublished ==
  \A c \in Range(FoundationCalls(<<"p">>, <<"d", "e", "v">>)) :
    Persisted(PutRequest(FoundationName, Output(c.name, c.value, c.type)))

\* C20: once the foundation run has been deployed its outputs are in the
\* store under producer 'foundation', and from then on a module run whose
\* required inputs are ['foundation.createdAt'] loads them.
C20_FoundationCreatedAtLoads ==
  /\ (app = "foundation" /\ AllBatchesDone) => FoundationPublished
  /\ ( /\ app = "module" /\ FoundationPublished
       /\ requiredInputs = <<<<"f", "o", "u", "n", "d", "a", "t", "i", "o", "n", ".", "c", "r", "e", "a", "t", "e", "d", "A", "t">>>> )
       => loaded.status = "ok"

\* ------------------------------------------------------------------------
\* C22
\* ------------------------------------------------------------------------
\* C22: no key appears twice among the keys a call of loadConfigFromDynamoDB
\* (config-loader.ts) sends to the store, also when the request list
\* repeats references, and a call that read the store only returns when
\* every originally requested reference, repeats included, is in the
\* mapping.
C22_DedupThenValidateAll ==
  LoaderRan =>
    /\ \A b \in DOMAIN loaded.reads :
         \A i, j \in DOMAIN loaded.reads[b] :
           i # j => loaded.reads[b][i] # loaded.reads[b][j]
    /\ (loaded.reads # <<>> /\ loaded.status = "ok") =>
         \A i \in DOMAIN requiredInputs : requiredInputs[i] \in DOMAIN loaded.config
    /\ (loaded.reads # <<>> /\ \E r \in Requested : ~Stored(r, tables[queriedTable])) =>
         loaded.status = "error"

\* C22 witness: the same stored reference requested twice, read with one
\* key, and the load returned.
C22_Witness ==
  /\ LoaderRan /\ Len(requiredInputs) = 2
  /\ requiredInputs[1] = requiredInputs[2]
  /\ Len(loaded.reads) = 1 /\ Len(loaded.reads[1]) = 1
  /\ loaded.status = "ok"

\* ------------------------------------------------------------------------
\* C23
\* ------------------------------------------------------------------------
DistinctKeys == {ParseKey(Trim(r)) : r \in {q \in Requested : WellFormed(Trim(q))}}

\* C23: no read of a Loader call carries more keys than the store accepts
\* in one call, more than one read is issued for more distinct references
\* than that, and each distinct key is requested in exactly one read.
C23_HonorsKeyLimit ==
  (LoaderRan /\ loaded.reads # <<>>) =>
    /\ \A b \in DOMAIN loaded.reads : Len(loaded.reads[b]) <= GetLimit
    /\ Cardinality(DistinctKeys) > GetLimit => Len(loaded.reads) > 1
    /\ \A k \in DistinctKeys :
         Cardinality({b \in DOMAIN loaded.reads : k \in Range(loaded.reads[b])}) = 1

\* ------------------------------------------------------------------------
\* C24
\* ------------------------------------------------------------------------
\* C24: when the key of every requested reference (trimmed, split on its
\* last dot) is in the store, the load returns, the mapping gives for each
\* reference as requested the store's value of its key, and the mapping
\* has no entry for anything that was not requested.
C24_LoadsWhatExists ==
  ( /\ LoaderRan /\ requiredInputs # <<>>
    /\ \A r \in Requested :
         WellFormed(Trim(r)) /\ Stored(Trim(r), tables[queriedTable]) ) =>
    /\ loaded.status = "ok"
    /\ \A r \in Requested :
         /\ r \in DOMAIN loaded.config
         /\ loaded.config[r] = StoredValue(Trim(r), tables[queriedTable])
    /\ DOMAIN loaded.config \subseteq Requested

\* ------------------------------------------------------------------------
\* C25
\* ------------------------------------------------------------------------
\* C25: a createOutput call whose name an earlier call of the run already
\* used, shareable or not, throws: it is the last call of the run, the run
\* exits with code 1, nothing of the call reaches the buffer and no Writer
\* is created; calls with names not used before return.
C25_DuplicateNameFailsRun ==
  app = "module" =>
    \A c \in DOMAIN calls :
      IF FirstWithName(c)
      THEN c \in ReturnedCalls
      ELSE /\ c = Len(calls) /\ phase = "exited" /\ exitCode = 1
           /\ flushes = 0 /\ batches = <<>>
           /\ Len(moduleOutputs) = Len(propsOutputs) + Len(Declared(c - 1))

\* C25 witness: a non-shareable and then a shareable output with the same
\* name, and the run has exited with code 1.
C25_Witness ==
  /\ app = "module" /\ Len(calls) = 2
  /\ calls[1].name = calls[2].name
  /\ ~calls[1].shareable /\ calls[2].shareable
  /\ phase = "exited" /\ exitCode = 1

\* ------------------------------------------------------------------------
\* C26
\* ------------------------------------------------------------------------
\* C26: in every run of a sequence of deploys of the module, the list
\* flushed to the Writer has no two entries with the same propertyName, and
\* after the deployment each shareable output declared in the run is in the
\* store with the value passed to createOutput, and no entry of the module
\* holds the descriptor's placeholder.
C26_NoPlaceholderNoDuplicates ==
  (app = "module" /\ phase = "synthesized") =>
    /\ \A i, j \in DOMAIN properties :
         i # j => properties[i].propertyName # properties[j].propertyName
    /\ AllBatchesDone =>
         /\ \A c \in ShareableCalls :
              Persisted(PutRequest(ModuleName,
                                   Output(calls[c].name, calls[c].value, calls[c].type)))
         /\ \A k \in DOMAIN tables[DevTable] :
              k[1] = ModuleName => tables[DevTable][k].value # Placeholder

\* ------------------------------------------------------------------------
\* Claims about the CLI commands
\* ------------------------------------------------------------------------
TypeTags == {"string", "arn", "url", "number", "json"}

\* C21: every entry persisted to the store, by the Writer, by the
\* Foundation or by add-module, carries a type from the closed set
\* {string, arn, url, number, json}
C21_TypesInClosedSet ==
  \A t \in DOMAIN tables : \A k \in DOMAIN tables[t] : tables[t][k].type \in TypeTags

\* the setup questions of the add-module command that configured the module
SetupReference(q) == RefOf(setupStackName(ModuleName), q.propertyName)

SetupKey(q) == <<setupStackName(ModuleName), q.propertyName>>

SetupPersisted(tbl, q) ==
  /\ SetupKey(q) \in DOMAIN tbl
  /\ tbl[SetupKey(q)].value = valueStr(q.answer)

\* C28: add-module adds the setup references to requiredInputs only after
\* every setup value is persisted under producer '<module>.setup'; a load of
\* a setup reference by the Loader reads exactly the key that was written
\* and returns the stored answer; and when a setup write fails the command
\* exits nonzero and requiredInputs is left as it was
C28_SetupReferencesResolve ==
  /\ [][\A d \in Dirs :
          (moduleDir[d].present /\ moduleDir'[d] # moduleDir[d])
            => /\ command'.name = "add-module" /\ command'.dir = d
               /\ \A i \in DOMAIN command'.questions :
                    SetupPersisted(tables'[CommandTable], command'.questions[i])]_vars
  /\ [](\A i \in DOMAIN command.questions :
          (Configured /\ loadImpl = "config-loader"
             /\ requiredInputs = <<SetupReference(command.questions[i])>>)
            => /\ loaded.status = "ok"
               /\ loaded.reads = << <<SetupKey(command.questions[i])>> >>
               /\ SetupReference(command.questions[i]) \in DOMAIN loaded.config
               /\ loaded.config[SetupReference(command.questions[i])]
                    = valueStr(command.questions[i].answer))
  /\ [][(command.step = "put" /\ command'.log = Append(command.log, <<"put", 1>>))
          => (command'.code = 1 /\ command'.step = "done" /\ moduleDir' = moduleDir)]_vars

\* C29: add-stage writes <stage>.json and appends the stage to core.json
\* only after the CDK bootstrap and then the foundation deployment have both
\* succeeded; when either fails neither file is written and the stage list
\* of core.json stays as it was; and a stage listed in core.json is never
\* added a second time
C29_StageRecordedAfterBothSucceed ==
  /\ [][(\/ stageFiles' # stageFiles
         \/ \E d \in Dirs : coreJson[d].present /\ coreJson'[d] # coreJson[d])
          => /\ command.name = "add-stage"
             /\ command'.log = << <<"bootstrap", 0>>, <<"foundation", 0>>, <<"recorded", 0>> >>
             /\ stageFiles' = stageFiles \cup {<<command.dir, command.stage>>}
             /\ coreJson' = [coreJson EXCEPT ![command.dir].stages = Append(@, command.stage)]
             /\ command.stage \notin Range(coreJson[command.dir].stages)]_vars
  /\ [](\A d \in Dirs : \A i, j \in DOMAIN coreJson[d].stages :
          i # j => coreJson[d].stages[i] # coreJson[d].stages[j])

C29_Witness ==
  /\ command.name = "add-stage" /\ command.step = "done"
  /\ command.log = << <<"bootstrap", 0>>, <<"foundation", 0>>, <<"recorded", 0>> >>
  /\ <<command.dir, command.stage>> \in stageFiles
  /\ Len(coreJson[command.dir].stages) = 2
  /\ coreJson[command.dir].stages[2] = command.stage

\* the (projectPrefix, stage) pairs whose stage has been recorded
RecordedPairs == {<<coreJson[x[1]].projectPrefix, x[2]>> : x \in stageFiles}

\* the pairs init and add-stage accept: lowercase letters only, at most 10
\* of them, and one of local, dev, test, prod
AcceptedPairs ==
  {x \in RecordedPairs \cup (AcceptedPrefixes \X Range(AVAILABLE_STAGES)) :
     /\ Len(x[1]) \in 1..10
     /\ \A i \in 1..Len(x[1]) : x[1][i] \in Range(LowerLetters)
     /\ x[2] \in Range(AVAILABLE_STAGES)}

\* C30: the pairs the tool creates are accepted pairs, and two distinct
\* accepted (projectPrefix, stage) pairs never get the same config table name
C30_TableNamesInjective ==
  /\ RecordedPairs \subseteq AcceptedPairs
  /\ \A x, y \in AcceptedPairs :
       x # y => getConfigTableName(x[1], x[2]) # getConfigTableName(y[1], y[2])

C30_Witness ==
  \E x, y \in RecordedPairs : x[1] # y[1] /\ x[2] = y[2]

\* ------------------------------------------------------------------------
\* C27
\* ------------------------------------------------------------------------
\* C27: in a deployment of the foundation stack, whenever the custom
\* resource of a Writer batch has been started, the config table exists
C27_TableBeforeFoundationWrites ==
  (app = "foundation" /\ \E i \in DOMAIN batchState : batchState[i] # "pending")
    => DevTable \in provisioned

\* C27 witness: the first deployment of the foundation stack has created the
\* table, still empty, and the batch of the nine outputs is being written
C27_Witness ==
  /\ app = "foundation" /\ batchState = <<"running">>
  /\ Len(batches[1]) = 9
  /\ DevTable \in provisioned /\ tables[DevTable] = EmptyTable

====
